---- MODULE Spec2Model ----
(***************************************************************************)
(* hash-files: one digest over the concatenated contents of a set of      *)
(* files.  The model covers lib/hash.ts (hashFiles, hashFilesSync) and the *)
(* command line entry point main.ts.                                       *)
(*                                                                         *)
(* Paths are numbers whose order is the code-unit order of the names they  *)
(* stand for: 0 is the name "*" (and, as a pattern, the wildcard), and     *)
(* 1..MaxPath are ordinary names.  Strings that the program computes with  *)
(* (hex output, a batch count given on the command line) are sequences of  *)
(* character codes.                                                        *)
(*                                                                         *)
(* One step of hashFiles runs from one await to the next: the call up to   *)
(* its first expandGlob, one step for each entry an expansion yields and   *)
(* one for its end, the issue of a batch, the settling of each read's      *)
(* promise, the resumption after Promise.all (with the results or with the *)
(* first rejection), the invocation of the digest and its answer.          *)
(* The loop test is a step of its own (IssueBatch, LoopExit): no read is   *)
(* in flight when it is due, so nothing else of the call can come between *)
(* a resumption and the test.                                              *)
(*                                                                         *)
(* walked counts the entries taken from the expansion in hand.  arrived    *)
(* lists the reads of the batch being awaited whose promises have settled, *)
(* in the order in which they settled.                                     *)
(***************************************************************************)
EXTENDS Integers, Sequences, FiniteSets, TLC

VARIABLES fs, entry, variant, req, pc, filePaths, i, batch, inflight,
          okReads, errReads, fileDataList, out, reads, globs, walked, allFiles, digests, proc,
          arrived

vars == <<fs, entry, variant, req, pc, filePaths, i, batch, inflight,
          okReads, errReads, fileDataList, out, reads, globs, walked, allFiles, digests, proc,
          arrived>>

hashVars == <<variant, req, pc, filePaths, i, batch, inflight,
              okReads, errReads, fileDataList, out, reads, globs, walked, allFiles, digests,
              arrived>>

(* ------------------------------ bounds -------------------------------- *)

\* ordinary path names 1..MaxPath
MaxPath == 2
\* longest list of paths a caller passes with noGlob
MaxFiles == 3
\* longest list of glob patterns a caller passes
MaxPatterns == 2
\* a loop index that runs away is followed down to -MaxIter, and as a
\* string up to MaxIter + 2 characters
MaxIter == 2

(* ----------------------------- constants ------------------------------ *)

Star == 0
DefaultBatchCount == 100

validAlgorithms == <<"sha-1", "sha-256", "sha-384", "sha-512">>

Algorithms == {"sha-1", "sha-256", "sha-384", "sha-512", "invalid-algo"}

Paths == 1..MaxPath
Patterns == {Star} \cup Paths

(* --------------------------- sequence helpers ------------------------- *)

Min(a, b) == IF a < b THEN a ELSE b
Max(a, b) == IF a > b THEN a ELSE b

Range(s) == {s[k] : k \in 1..Len(s)}

SeqsUpTo(S, n) == UNION {[1..k -> S] : k \in 0..n}

RECURSIVE Concat(_)
Concat(ss) == IF ss = <<>> THEN <<>> ELSE Head(ss) \o Concat(Tail(ss))

\* [...new Set(xs)]: first occurrences, insertion order kept
RECURSIVE Dedupe(_)
Dedupe(xs) ==
  IF xs = <<>> THEN <<>>
  ELSE LET r == Dedupe(SubSeq(xs, 1, Len(xs) - 1))
           x == xs[Len(xs)]
       IN IF x \in Range(r) THEN r ELSE Append(r, x)

RECURSIVE Insert(_, _)
Insert(s, x) ==
  IF s = <<>> THEN <<x>>
  ELSE IF x < Head(s) THEN <<x>> \o s
  ELSE <<Head(s)>> \o Insert(Tail(s), x)

\* Array.prototype.sort() on path names: ascending code-unit order
RECURSIVE Sort(_)
Sort(xs) == IF xs = <<>> THEN <<>> ELSE Insert(Sort(Tail(xs)), Head(xs))

(* ------------------------ JavaScript values --------------------------- *)
\* an integer number, NaN, a string of character codes, or undefined

Num(n) == [t |-> "num", n |-> n, s |-> <<>>]
NaN == [t |-> "nan", n |-> 0, s |-> <<>>]
Str(s) == [t |-> "str", n |-> 0, s |-> s]
Undef == [t |-> "undef", n |-> 0, s |-> <<>>]

RECURSIVE Digits(_)
Digits(n) == IF n < 10 THEN <<48 + n>> ELSE Append(Digits(n \div 10), 48 + (n % 10))

\* String(v) for a number or a string
JsToString(v) ==
  IF v.t = "str" THEN v.s
  ELSE IF v.t = "nan" THEN <<78, 97, 78>>
  ELSE IF v.n < 0 THEN <<45>> \o Digits(0 - v.n) ELSE Digits(v.n)

(* Number(string): the StringNumericLiteral grammar and the value of the
   literal as the nearest IEEE 754 double.  A string reaches it as the index
   i in `i < filePaths.length` and as an argument of slice. *)

\* the largest integer there is here: the whole part of a number at or
\* beyond it, Infinity included, is given as Huge
Huge == 2147483647

\* the value of a character as a digit: 0-9, a-f, A-F; 16 for any other
DigitValue(c) ==
  IF c \in 48..57 THEN c - 48
  ELSE IF c \in 97..102 THEN c - 87
  ELSE IF c \in 65..70 THEN c - 55
  ELSE 16

\* the number written by the digits s in a radix, capped at Huge
RECURSIVE Positional(_, _)
Positional(s, radix) ==
  IF s = <<>> THEN 0
  ELSE LET high == Positional(SubSeq(s, 1, Len(s) - 1), radix)
           d == DigitValue(s[Len(s)])
       IN IF high > (Huge - d) \div radix THEN Huge ELSE radix * high + d

Decimal(s) == Positional(s, 10)

AllDigits(s) == \A k \in 1..Len(s) : s[k] \in 48..57

AllZeros(s) == \A k \in 1..Len(s) : s[k] = 48

\* the position of the first character of s that is in C, 0 when there is none
RECURSIVE IndexOf(_, _)
IndexOf(s, C) ==
  IF s = <<>> THEN 0
  ELSE IF s[1] \in C THEN 1
  ELSE IF IndexOf(Tail(s), C) = 0 THEN 0
  ELSE 1 + IndexOf(Tail(s), C)

\* StrWhiteSpaceChar: white space and line terminators
WhiteSpace ==
  {9, 10, 11, 12, 13, 32, 160, 5760, 8232, 8233, 8239, 8287, 12288, 65279}
    \cup (8192..8202)

\* s without the white space around it
RECURSIVE Trimmed(_)
Trimmed(s) ==
  IF s = <<>> THEN s
  ELSE IF s[1] \in WhiteSpace THEN Trimmed(Tail(s))
  ELSE IF s[Len(s)] \in WhiteSpace THEN Trimmed(SubSeq(s, 1, Len(s) - 1))
  ELSE s

Negative(t) == t # <<>> /\ t[1] = 45
Unsigned(t) == IF t # <<>> /\ t[1] \in {43, 45} THEN Tail(t) ELSE t

\* 0x / 0X, 0b / 0B, 0o / 0O and digits of that radix: takes no sign
Radix(t) ==
  IF Len(t) < 3 \/ t[1] # 48 THEN 0
  ELSE IF t[2] \in {120, 88} THEN 16
  ELSE IF t[2] \in {98, 66} THEN 2
  ELSE IF t[2] \in {111, 79} THEN 8
  ELSE 0
RadixLiteral(t) == Radix(t) # 0 /\ \A k \in 3..Len(t) : DigitValue(t[k]) < Radix(t)

InfinityLiteral(u) == u = <<73, 110, 102, 105, 110, 105, 116, 121>>

\* the parts of an unsigned decimal literal: digits, an optional "." and
\* digits, an optional "e" or "E" with an exponent that may carry a sign
Mantissa(u) ==
  IF IndexOf(u, {101, 69}) = 0 THEN u ELSE SubSeq(u, 1, IndexOf(u, {101, 69}) - 1)
Exponent(u) ==
  IF IndexOf(u, {101, 69}) = 0 THEN <<>> ELSE SubSeq(u, IndexOf(u, {101, 69}) + 1, Len(u))
IntDigits(m) == IF IndexOf(m, {46}) = 0 THEN m ELSE SubSeq(m, 1, IndexOf(m, {46}) - 1)
FracDigits(m) == IF IndexOf(m, {46}) = 0 THEN <<>> ELSE SubSeq(m, IndexOf(m, {46}) + 1, Len(m))

DecimalLiteral(u) ==
  LET m == Mantissa(u)
  IN /\ AllDigits(IntDigits(m))
     /\ AllDigits(FracDigits(m))
     /\ Len(IntDigits(m)) + Len(FracDigits(m)) >= 1
     /\ IndexOf(u, {101, 69}) # 0 =>
          (Unsigned(Exponent(u)) # <<>> /\ AllDigits(Unsigned(Exponent(u))))

\* Number(s) is a number: s is white space only, or, white space taken off,
\* a literal of one of the three forms
NumericString(s) ==
  LET t == Trimmed(s)
  IN \/ t = <<>>
     \/ DecimalLiteral(Unsigned(t))
     \/ RadixLiteral(t)
     \/ InfinityLiteral(Unsigned(t))

\* s without its leading zeros
RECURSIVE StripZeros(_)
StripZeros(s) == IF s # <<>> /\ s[1] = 48 THEN StripZeros(Tail(s)) ELSE s

\* twice the number written by the decimal digits d
Twice(d) ==
  LET t == <<48>> \o d
  IN StripZeros([k \in 1..Len(t) |->
       48 + ((2 * (t[k] - 48) + (IF k < Len(t) /\ t[k + 1] >= 53 THEN 1 ELSE 0)) % 10)])

Times32(d) == Twice(Twice(Twice(Twice(Twice(d)))))

\* the number written by d (no leading zeros) is at most 10^n
AtMostPow10(d, n) == Len(d) <= n \/ (Len(d) = n + 1 /\ d[1] = 49 /\ AllZeros(Tail(d)))

\* 2^j times the number written by d is at most 10^n: doubled j times, or
\* until it has more digits than 10^n
RECURSIVE FitsPow10(_, _, _)
FitsPow10(d, j, n) ==
  IF j = 0 \/ Len(d) > n + 1 \/ d = <<>> THEN AtMostPow10(d, n)
  ELSE IF j >= 5 THEN FitsPow10(Times32(d), j - 5, n)
  ELSE FitsPow10(Twice(d), j - 1, n)

\* 0.f, for decimal digits f, is at most 2^-j
AtMostPow2(f, j) == FitsPow10(StripZeros(f), j, Len(f))

\* 10^Len(f) minus the number written by f, in Len(f) digits (f not all 0)
TensComplement(f) ==
  LET last == CHOOSE k \in 1..Len(f) : f[k] # 48 /\ \A j \in (k + 1)..Len(f) : f[j] = 48
  IN [k \in 1..Len(f) |-> IF k < last THEN 105 - f[k] ELSE IF k = last THEN 106 - f[k] ELSE 48]

\* the exponent of the largest power of two that is at most n, for n >= 1
RECURSIVE Log2(_)
Log2(n) == IF n < 2 THEN 0 ELSE 1 + Log2(n \div 2)

(* The exact value of an unsigned decimal literal, as s and p: s its digits
   from the first one other than 0, p how many of them stand before the
   decimal point once the exponent is applied (negative: zeros between the
   point and the digits). *)
Significant(u) == StripZeros(IntDigits(Mantissa(u)) \o FracDigits(Mantissa(u)))

Point(u) ==
  LET x == Exponent(u)
      e == IF Negative(x) THEN 0 - Decimal(Tail(x)) ELSE Decimal(Unsigned(x))
  IN IF e > Huge - Len(u) THEN Huge
     ELSE IF e < Len(u) - Huge THEN 0 - Huge
     ELSE Len(Significant(u)) - Len(FracDigits(Mantissa(u))) + e

\* the whole part of the exact value
Whole(s, p) ==
  IF s = <<>> \/ p <= 0 THEN 0
  ELSE IF p > 10 THEN Huge
  ELSE Decimal([k \in 1..p |-> IF k <= Len(s) THEN s[k] ELSE 48])

\* the digits after the point, for a value of at least 0.1
Fraction(s, p) == IF p >= 0 /\ p < Len(s) THEN SubSeq(s, p + 1, Len(s)) ELSE <<>>

\* half the distance between neighbouring doubles in [w, w + 1), as the j of
\* 2^-j (53 bits of precision; the doubles below 1 that matter are those
\* next to 1)
HalfUlp(w) == IF w = 0 THEN 54 ELSE 53 - Log2(w)

\* the nearest double is the integer above: w + 1 is within half the
\* distance of the value w.f (a tie goes to the integer, whose last bit is 0)
RoundsUp(w, f) ==
  ~AllZeros(f) /\ w < Huge /\ AtMostPow2(TensComplement(f), HalfUlp(w))

\* the nearest double is the integer below: w, or for a value below 1 zero,
\* which is the nearest double up to 2^-1075, half the least double
RoundsDown(s, p, w) ==
  IF w >= 1 THEN w < Huge /\ AtMostPow2(Fraction(s, p), HalfUlp(w))
  ELSE p < 0 - 323 \/ (p = 0 - 323 /\ FitsPow10(s, 1075, Len(s) + 323))

\* |Number(u)| for an unsigned decimal literal u, the nearest double to its
\* exact value: its whole part, and whether it is an integer
DecimalNumber(u) ==
  LET s == Significant(u)
      p == Point(u)
      w == Whole(s, p)
      up == RoundsUp(w, Fraction(s, p))
  IN [whole |-> IF up THEN w + 1 ELSE w,
      integer |-> \/ s = <<>>
                  \/ (p >= 0 /\ AllZeros(Fraction(s, p)))
                  \/ w = Huge
                  \/ up
                  \/ RoundsDown(s, p, w)]

\* |Number(s)| for a numeric string s
Magnitude(s) ==
  LET t == Trimmed(s)
  IN IF t = <<>> THEN [whole |-> 0, integer |-> TRUE]
     ELSE IF DecimalLiteral(Unsigned(t)) THEN DecimalNumber(Unsigned(t))
     ELSE IF RadixLiteral(t)
     THEN [whole |-> Positional(SubSeq(t, 3, Len(t)), Radix(t)), integer |-> TRUE]
     ELSE [whole |-> Huge, integer |-> TRUE]

\* Number(s) rounded toward zero, for a numeric string s
Truncated(s) ==
  IF Negative(Trimmed(s)) THEN 0 - Magnitude(s).whole ELSE Magnitude(s).whole

\* Number(s) rounded down, for a numeric string s
Floored(s) ==
  IF Negative(Trimmed(s)) /\ ~Magnitude(s).integer
  THEN 0 - (Magnitude(s).whole + 1)
  ELSE Truncated(s)

\* Number(v) is NaN
JsIsNaN(v) == v.t = "nan" \/ (v.t = "str" /\ ~NumericString(v.s))

\* ToIntegerOrInfinity(v): Number(v) rounded toward zero, 0 for NaN
JsToInteger(v) ==
  IF JsIsNaN(v) THEN 0
  ELSE IF v.t = "str" THEN Truncated(v.s)
  ELSE v.n

\* a + b: addition of numbers, concatenation as soon as one side is a string
JsAdd(a, b) ==
  IF a.t = "str" \/ b.t = "str" THEN Str(JsToString(a) \o JsToString(b))
  ELSE IF a.t = "nan" \/ b.t = "nan" THEN NaN
  ELSE Num(a.n + b.n)

\* a < n for an integer n: false for NaN, else Number(a) < n, which holds
\* exactly when Number(a) rounded down is less than n
JsLess(a, n) ==
  /\ ~JsIsNaN(a)
  /\ (IF a.t = "str" THEN Floored(a.s) ELSE a.n) < n

\* Array.prototype.slice(start, end) on an array of length len: the positions
\* (1-based) of the elements it returns
SliceFrom(len, k) == IF k < 0 THEN Max(len + k, 0) ELSE Min(k, len)
Slice(len, start, end) ==
  LET from == SliceFrom(len, JsToInteger(start))
      to == SliceFrom(len, JsToInteger(end))
  IN [k \in 1..Max(to - from, 0) |-> from + k]

(* ---------------------------- file system ----------------------------- *)

\* no entry, a directory, a regular file, or an entry that cannot be
\* examined (every access to it fails with an error other than NotFound)
Kinds == {"none", "dir", "file", "denied"}

\* the bytes of the file named p
ReadBytes(p) == [k \in 1..p |-> (7 * p + 5 * k) % 256]

IsFile(p) == p \in DOMAIN fs /\ fs[p] = "file"
Exists(p) == p \in DOMAIN fs /\ fs[p] # "none"
Denied(p) == p \in DOMAIN fs /\ fs[p] = "denied"

\* Deno.readFile / Deno.readFileSync succeed on regular files only
ReadOk(p) == IsFile(p)

\* the order in which a directory walk yields entries
RECURSIVE Walk(_)
Walk(S) ==
  IF S = {} THEN <<>>
  ELSE LET m == CHOOSE x \in S : \A y \in S : x <= y
       IN <<m>> \o Walk(S \ {m})

\* expandGlob(pattern): the paths of the entries (files and directories) the
\* pattern matches; the wildcard matches every entry, a literal pattern the
\* entry of that name
ExpandGlob(pattern) ==
  IF pattern = Star THEN Walk({p \in DOMAIN fs : Exists(p)})
  ELSE Walk({p \in DOMAIN fs : p = pattern /\ Exists(p)})

(* ------------------------------ lib/hash.ts --------------------------- *)

\* a validation that only checks that an algorithm was given
isValidAlgorithmTruthy(algorithm) == algorithm # ""

isValidAlgorithm(algorithm) == algorithm \in Range(validAlgorithms)

\* const { files, algorithm, batchCount = 100, noGlob } = options
WithDefaults(o) ==
  [o EXCEPT !.batchCount = IF o.batchCount.t = "undef" THEN Num(DefaultBatchCount)
                           ELSE o.batchCount]

\* hashFilesSync, glob branch: patterns holding '*' are skipped with a
\* warning, every other pattern is taken as a path
PatternIncludesStar(pattern) == pattern = Star

RECURSIVE AllFilesSync(_)
AllFilesSync(files) ==
  IF files = <<>> THEN <<>>
  ELSE (IF PatternIncludesStar(Head(files)) THEN <<>> ELSE <<Head(files)>>)
       \o AllFilesSync(Tail(files))

ResolveSync(o) == IF o.noGlob THEN o.files ELSE Sort(Dedupe(AllFilesSync(o.files)))

\* b.toString(16).padStart(2, "0") joined over the bytes
HexDigit(d) == IF d < 10 THEN 48 + d ELSE 87 + d

HexEncode(bytes) ==
  [k \in 1..(2 * Len(bytes)) |->
     IF k % 2 = 1 THEN HexDigit(bytes[(k + 1) \div 2] \div 16)
     ELSE HexDigit(bytes[k \div 2] % 16)]

\* the Web Crypto name of a validated algorithm
AlgoName(algorithm) ==
  IF algorithm = "sha-1" THEN "SHA-1"
  ELSE IF algorithm = "sha-256" THEN "SHA-256"
  ELSE IF algorithm = "sha-384" THEN "SHA-384"
  ELSE IF algorithm = "sha-512" THEN "SHA-512"
  ELSE "SHA-1"

\* output size in bytes of the digest primitive
DigestLen(algoName) ==
  IF algoName = "SHA-1" THEN 20
  ELSE IF algoName = "SHA-256" THEN 32
  ELSE IF algoName = "SHA-384" THEN 48
  ELSE 64

\* crypto.subtle.digest(algoName, data), the external primitive: a function
\* of the algorithm and of the data, of the algorithm's output size, without
\* collisions on the data of this model
Digest(algoName, data) ==
  LET n == DigestLen(algoName)
  IN [k \in 1..n |->
        IF k = 1 THEN Len(data) % 256
        ELSE IF k - 1 <= Len(data) THEN data[k - 1]
        ELSE (n + 3 * k) % 256]


(* hashFilesSync's "simplified hash": a 32-bit integer kept as two 16-bit  *)
(* halves, hi * 65536 + lo being its bit pattern                           *)

Int32(hi, lo) == [hi |-> hi % 65536, lo |-> lo % 65536]

\* hash << 5
Shl5(h) == Int32(32 * h.hi + ((32 * h.lo) \div 65536), 32 * h.lo)

\* hash = ((hash << 5) - hash) + char;  hash = hash & hash
HashStep(h, char) ==
  LET s == Shl5(h)
      lo == s.lo - h.lo + char
  IN Int32(s.hi - h.hi + (lo \div 65536), lo)

\* the value of hash after the first k characters of hashHex
RECURSIVE HashLoop(_, _)
HashLoop(hashHex, k) ==
  IF k = 0 THEN Int32(0, 0)
  ELSE LET h == HashLoop(hashHex, k - 1)
       IN IF h.hi >= 0 THEN HashStep(h, hashHex[k]) ELSE h  \* the test is always true

\* Math.abs(hash) of the signed value of the bit pattern
MathAbs(h) ==
  IF h.hi < 32768 THEN h
  ELSE [hi |-> (65535 - h.hi) + (IF h.lo = 0 THEN 1 ELSE 0), lo |-> (65536 - h.lo) % 65536]

\* n.toString(16) for 0 <= n < 65536, without and with leading zeros
RECURSIVE Hex16(_)
Hex16(n) == IF n < 16 THEN <<HexDigit(n)>> ELSE Append(Hex16(n \div 16), HexDigit(n % 16))

Hex16Pad(n) ==
  <<HexDigit(n \div 4096), HexDigit((n \div 256) % 16), HexDigit((n \div 16) % 16), HexDigit(n % 16)>>

\* Math.abs(hash).toString(16)
ToString16(h) == IF h.hi = 0 THEN Hex16(h.lo) ELSE Hex16(h.hi) \o Hex16Pad(h.lo)

SimpleHash(combinedData) ==
  LET hashHex == HexEncode(combinedData)
  IN ToString16(MathAbs(HashLoop(hashHex, Len(hashHex))))

(* ------------------------------ outcomes ------------------------------ *)

Pending == [st |-> "pending", hex |-> <<>>, kind |-> "", path |-> -1]
Resolved(hex) == [st |-> "resolved", hex |-> hex, kind |-> "", path |-> -1]
\* new Error("Invalid algorithm. Please use one of the following: ...")
InvalidAlgorithm == [st |-> "rejected", hex |-> <<>>, kind |-> "InvalidAlgorithm", path |-> -1]
\* new Error(`Failed to read file ${filePath}: ...`)
ReadFailure(p) == [st |-> "rejected", hex |-> <<>>, kind |-> "ReadFailure", path |-> p]
\* the error the expandGlob iterator throws, passed on as it is
GlobFailure(p) == [st |-> "rejected", hex |-> <<>>, kind |-> "GlobFailure", path |-> p]

NoRequest == [files |-> <<>>, algorithm |-> "", batchCount |-> Undef, noGlob |-> FALSE]

(* ------------------------------ hashFilesSync ------------------------- *)

\* try { Deno.readFileSync(filePath) } catch { throw new Error(...) }
ReadResultSync(p) ==
  IF ReadOk(p) THEN [ok |-> TRUE, data |-> ReadBytes(p)] ELSE [ok |-> FALSE, data |-> <<>>]

\* the position of the first path whose read throws, 0 when every read succeeds
FirstBad(fp) ==
  LET bad == {k \in 1..Len(fp) : ~ReadResultSync(fp[k]).ok}
  IN IF bad = {} THEN 0 ELSE CHOOSE k \in bad : \A j \in bad : k <= j

\* hashFilesSync(o) as a function of the request and the file system: the
\* resolved paths, the position of the read that threw (0: none), the data
\* read, and the outcome
HashFilesSyncRun(o) ==
  IF ~isValidAlgorithm(o.algorithm)
  THEN [filePaths |-> <<>>, bad |-> 0, nreads |-> 0, data |-> <<>>, out |-> InvalidAlgorithm]
  ELSE LET fp == ResolveSync(o)
           bad == FirstBad(fp)
           n == IF bad = 0 THEN Len(fp) ELSE bad - 1
           data == [k \in 1..n |-> ReadResultSync(fp[k]).data]
       IN [filePaths |-> fp, bad |-> bad, nreads |-> IF bad = 0 THEN Len(fp) ELSE bad,
           data |-> data,
           out |-> IF bad = 0 THEN Resolved(SimpleHash(Concat(data))) ELSE ReadFailure(fp[bad])]

\* one whole run of hashFilesSync(o): it never yields, so it is one step
HashFilesSyncCall(o) ==
  LET r == HashFilesSyncRun(o)
  IN /\ pc = "idle"
     /\ variant' = "sync"
     /\ req' = o
     /\ filePaths' = r.filePaths
     /\ reads' = [k \in 1..r.nreads |-> k]
     /\ okReads' = 1..(IF r.bad = 0 THEN r.nreads ELSE r.bad - 1)
     /\ errReads' = IF r.bad = 0 THEN {} ELSE {r.bad}
     /\ fileDataList' = r.data
     /\ out' = r.out
     /\ pc' = r.out.st
     /\ UNCHANGED <<i, batch, inflight, globs, walked, allFiles, digests, arrived>>

(* ------------------------------- hashFiles ---------------------------- *)

\* hashFiles(o) up to its first await: defaults and validation, then the
\* path list of the noGlob branch, or the first expandGlob call
HashFilesCall(o) ==
  /\ pc = "idle"
  /\ variant' = "async"
  /\ req' = WithDefaults(o)
  /\ UNCHANGED <<batch, inflight, okReads, errReads, fileDataList, reads, digests,
                 arrived, allFiles, walked>>
  /\ IF ~isValidAlgorithm(o.algorithm)
     THEN /\ out' = InvalidAlgorithm
          /\ pc' = "rejected"
          /\ UNCHANGED <<filePaths, i, globs>>
     ELSE IF o.noGlob
     THEN /\ filePaths' = o.files
          /\ i' = Num(0)
          /\ pc' = "loop"
          /\ UNCHANGED <<globs, out>>
     ELSE IF o.files = <<>>
     THEN /\ filePaths' = Sort(Dedupe(allFiles))
          /\ i' = Num(0)
          /\ pc' = "loop"
          /\ UNCHANGED <<globs, out>>
     ELSE /\ globs' = 1
          /\ pc' = "glob"
          /\ UNCHANGED <<filePaths, i, out>>

\* for await (const file of expandGlob(pattern)) resumes: with an error
\* thrown by the iterator, which rejects the call; with the next entry,
\* pushed when it is a regular file; or at the end of the expansion, with
\* the next pattern's expandGlob call or, after the last pattern,
\* filePaths = [...new Set(allFiles)].sort()
ExpandGlobStep ==
  /\ pc = "glob"
  /\ LET found == ExpandGlob(req.files[globs])
     IN IF walked < Len(found) /\ Denied(found[walked + 1])
        THEN /\ pc' = "rejected"
             /\ out' = GlobFailure(found[walked + 1])
             /\ UNCHANGED <<walked, allFiles, filePaths, i, globs>>
        ELSE IF walked < Len(found)
        THEN /\ walked' = walked + 1
             /\ allFiles' = IF IsFile(found[walked + 1])
                            THEN Append(allFiles, found[walked + 1])
                            ELSE allFiles
             /\ UNCHANGED <<pc, out, filePaths, i, globs>>
        ELSE IF globs < Len(req.files)
        THEN /\ globs' = globs + 1
             /\ walked' = 0
             /\ UNCHANGED <<pc, out, filePaths, i, allFiles>>
        ELSE /\ filePaths' = Sort(Dedupe(allFiles))
             /\ i' = Num(0)
             /\ pc' = "loop"
             /\ UNCHANGED <<out, globs, walked, allFiles>>
  /\ UNCHANGED <<fs, entry, variant, req, batch, inflight, okReads, errReads,
                 fileDataList, reads, digests, proc, arrived>>

\* a batch cut as filePaths.slice(i, batchCount)
BatchOfFixedEnd(idx, batchCount) == Slice(Len(filePaths), idx, batchCount)

\* the batch of one loop iteration: filePaths.slice(i, i + batchCount)
BatchOf(idx, batchCount) == Slice(Len(filePaths), idx, JsAdd(idx, batchCount))

\* for (...; i < filePaths.length; ...): one iteration up to its await; every
\* read of the batch is issued
IssueBatch ==
  /\ pc = "loop"
  /\ variant = "async"
  /\ JsLess(i, Len(filePaths))
  /\ JsToInteger(i) >= 0 - MaxIter
  /\ Len(JsToString(i)) <= MaxIter + 2
  /\ batch' = BatchOf(i, req.batchCount)
  /\ inflight' = inflight \cup Range(batch')
  /\ reads' = reads \o batch'
  /\ arrived' = <<>>
  /\ pc' = "await"
  /\ UNCHANGED <<fs, entry, variant, req, filePaths, i, okReads, errReads,
                 fileDataList, out, globs, walked, allFiles, digests, proc>>

\* the loop condition fails: the loop is left, the buffers are concatenated
\* and crypto.subtle.digest is invoked; the call waits for its answer
LoopExit ==
  /\ pc = "loop"
  /\ variant = "async"
  /\ ~JsLess(i, Len(filePaths))
  /\ arrived' = <<>>
  /\ digests' = digests + 1
  /\ pc' = "digest"
  /\ UNCHANGED <<fs, entry, variant, req, filePaths, i, batch, inflight, okReads,
                 errReads, fileDataList, out, reads, globs, walked, allFiles, proc>>

\* batch.map(async (filePath) => { try { return await Deno.readFile(filePath) }
\* catch { throw new Error(...) } }): what the promise of one path settles to
ReadResult(p) ==
  IF ReadOk(p) THEN [ok |-> TRUE, data |-> ReadBytes(p)] ELSE [ok |-> FALSE, data |-> <<>>]

\* Promise.any in place of Promise.all: resumes with the first fulfilled read
AnyFulfilled(b) == b = <<>> \/ \E p \in Range(b) : p \in okReads

\* await Promise.all(batchPromises) resumes with the results once every
\* promise of the batch is fulfilled
AllFulfilled(b) == Range(b) \subseteq okReads

\* the promise of one read's callback settles: fulfilled with the bytes or
\* rejected with the "Failed to read file" error; hashFiles itself resumes
\* in a later step.  Nothing settles in a process that has exited.
ReadSettle ==
  /\ proc.st # "exited"
  /\ \E p \in inflight :
    /\ inflight' = inflight \ {p}
    /\ IF ReadResult(filePaths[p]).ok
       THEN okReads' = okReads \cup {p} /\ UNCHANGED errReads
       ELSE errReads' = errReads \cup {p} /\ UNCHANGED okReads
    /\ arrived' = IF pc = "await" THEN Append(arrived, p) ELSE arrived
    /\ UNCHANGED <<fs, entry, variant, req, pc, filePaths, i, batch, fileDataList,
                   out, reads, globs, walked, allFiles, digests, proc>>

\* the first promise of the batch to have been rejected, 0 when there is none
FirstRejected(arr) ==
  LET bad == {k \in 1..Len(arr) : ~ReadResult(filePaths[arr[k]]).ok}
  IN IF bad = {} THEN 0 ELSE arr[CHOOSE k \in bad : \A j \in bad : k <= j]

\* Promise.all rejected with the reason of the first rejected promise,
\* whichever promises of the batch are still pending: the await throws and
\* hashFiles rejects with that error
BatchReject ==
  /\ pc = "await"
  /\ FirstRejected(arrived) # 0
  /\ pc' = "rejected"
  /\ out' = ReadFailure(filePaths[FirstRejected(arrived)])
  /\ arrived' = <<>>
  /\ UNCHANGED <<fs, entry, variant, req, filePaths, i, batch, inflight, okReads,
                 errReads, fileDataList, reads, globs, walked, allFiles, digests, proc>>

\* results collected in the order in which the reads were fulfilled
BatchResultsArrival(b, arr) == [k \in 1..Len(arr) |-> ReadResult(filePaths[arr[k]]).data]

\* batchResults: Promise.all yields the values at the indices of their
\* promises in batchPromises, whatever the order arr in which they arrived
BatchResults(b, arr) == [k \in 1..Len(b) |-> ReadResult(filePaths[b[k]]).data]

\* Promise.all resolves: fileDataList.push(...batchResults); i += batchCount
BatchResolve ==
  /\ pc = "await"
  /\ AllFulfilled(batch)
  /\ fileDataList' = fileDataList \o BatchResults(batch, arrived)
  /\ i' = JsAdd(i, req.batchCount)
  /\ pc' = "loop"
  /\ UNCHANGED <<fs, entry, variant, req, filePaths, batch, inflight, okReads,
                 errReads, out, reads, globs, walked, allFiles, digests, proc, arrived>>

\* crypto.subtle.digest answers: the hash buffer is hex encoded and the
\* call resolves
DigestStep ==
  /\ pc = "digest"
  /\ out' = Resolved(HexEncode(Digest(AlgoName(req.algorithm), Concat(fileDataList))))
  /\ pc' = "resolved"
  /\ UNCHANGED <<fs, entry, variant, req, filePaths, i, batch, inflight, okReads,
                 errReads, fileDataList, reads, globs, walked, allFiles, digests, proc,
                 arrived>>

(* ------------------------------ callers ------------------------------- *)

\* the files option: paths taken as given (noGlob), or glob patterns
FileLists == SeqsUpTo(Paths, MaxFiles)
PatternLists == SeqsUpTo(Patterns, MaxPatterns)

\* batch counts a library caller passes
LibBatchCounts == {Undef, NaN, Num(-1), Num(0), Num(1), Num(2)}

LibOptions ==
  [files : FileLists, algorithm : Algorithms, batchCount : LibBatchCounts,
   noGlob : {TRUE}]
  \cup
  [files : PatternLists, algorithm : Algorithms, batchCount : LibBatchCounts,
   noGlob : {FALSE}]

\* the process of main.ts: what it wrote to stdout (nothing, the usage text,
\* or the digest line `line`), whether it wrote an "Error: ..." line to
\* stderr, and its exit code
NoProc == [st |-> "none", help |-> FALSE, stdout |-> "", line |-> <<>>, stderr |-> FALSE, code |-> -1]

\* a library caller awaits hashFiles(o)
LibHashFiles ==
  /\ entry = "none"
  /\ \E o \in LibOptions :
    /\ entry' = "lib"
    /\ HashFilesCall(o)
    /\ UNCHANGED <<fs, proc>>

\* a library caller calls hashFilesSync(o)
LibHashFilesSync ==
  /\ entry = "none"
  /\ \E o \in LibOptions :
    /\ entry' = "lib"
    /\ HashFilesSyncCall(o)
    /\ UNCHANGED <<fs, proc>>

(* -------------------------------- main.ts ----------------------------- *)

\* -c / --batchCount is declared a string option: given, it is the text of
\* the argument ("1", "2", "0", "abc", "1.5", "1e3", "x1"); left out, it is
\* the default, the number 100
CliBatchCounts ==
  {Num(DefaultBatchCount), Str(<<49>>), Str(<<50>>), Str(<<48>>), Str(<<97, 98, 99>>),
   Str(<<49, 46, 53>>), Str(<<49, 101, 51>>), Str(<<120, 49>>)}

\* -a / --algorithm as given on the command line: the default, another
\* valid name, an invalid one
CliAlgorithms == {"sha-1", "sha-256", "invalid-algo"}

\* what parseArgs returns: files is -1 when -f is not given
CliArgs ==
  [files : {-1} \cup Patterns, positional : FileLists, algorithm : CliAlgorithms,
   noGlob : {TRUE}, batchCount : CliBatchCounts, sync : BOOLEAN, help : BOOLEAN]
  \cup
  [files : {-1} \cup Patterns, positional : PatternLists, algorithm : CliAlgorithms,
   noGlob : {FALSE}, batchCount : CliBatchCounts, sync : BOOLEAN, help : BOOLEAN]

\* const files = args.files ? [args.files].flat() : args._.length > 0 ? ... : ["./**"]
FilesOf(args) ==
  IF args.files # -1 THEN <<args.files>>
  ELSE IF Len(args.positional) > 0 THEN args.positional
  ELSE <<Star>>

HashOptionsOf(args) ==
  [files |-> FilesOf(args), algorithm |-> args.algorithm,
   batchCount |-> args.batchCount, noGlob |-> args.noGlob]

\* main() up to its await
Main ==
  /\ entry = "none"
  /\ \E args \in CliArgs :
    /\ entry' = "cli"
    /\ args.files # -1 => args.positional = <<>>
    /\ UNCHANGED fs
    /\ IF args.help
       THEN /\ proc' = [NoProc EXCEPT !.st = "exited", !.help = TRUE,
                                       !.stdout = "usage", !.code = 0]
            /\ UNCHANGED hashVars
       ELSE /\ proc' = [NoProc EXCEPT !.st = "running"]
            /\ IF args.sync THEN HashFilesSyncCall(HashOptionsOf(args))
               ELSE HashFilesCall(HashOptionsOf(args))

\* try { ...; console.log(result) } catch { console.error(`Error: ...`);
\* Deno.exit(1) }: how the process ends once the call has settled
ExitAfter(state, result) ==
  IF state = "resolved"
  THEN [st |-> "exited", help |-> FALSE, stdout |-> "digest", line |-> result.hex, stderr |-> FALSE, code |-> 0]
  ELSE [st |-> "exited", help |-> FALSE, stdout |-> "", line |-> <<>>, stderr |-> TRUE, code |-> 1]

\* main() after the call settled: console.log(result), or console.error and
\* Deno.exit(1)
MainFinish ==
  /\ entry = "cli"
  /\ proc.st = "running"
  /\ pc \in {"resolved", "rejected"}
  /\ proc' = ExitAfter(pc, out)
  /\ UNCHANGED <<fs, entry, variant, req, pc, filePaths, i, batch, inflight, okReads,
                 errReads, fileDataList, out, reads, globs, walked, allFiles, digests, arrived>>

(* --------------------------- specification ---------------------------- *)

Init ==
  /\ fs \in [Paths -> Kinds]
  /\ entry = "none"
  /\ variant = "none"
  /\ req = NoRequest
  /\ pc = "idle"
  /\ filePaths = <<>>
  /\ i = Num(0)
  /\ batch = <<>>
  /\ inflight = {}
  /\ okReads = {}
  /\ errReads = {}
  /\ fileDataList = <<>>
  /\ out = Pending
  /\ reads = <<>>
  /\ globs = 0
  /\ walked = 0
  /\ allFiles = <<>>
  /\ digests = 0
  /\ proc = NoProc
  /\ arrived = <<>>

Next ==
  \/ LibHashFiles
  \/ LibHashFilesSync
  \/ Main
  \/ ExpandGlobStep
  \/ IssueBatch
  \/ LoopExit
  \/ ReadSettle
  \/ BatchResolve
  \/ BatchReject
  \/ DigestStep
  \/ MainFinish

Spec == Init /\ [][Next]_vars


(* ------------------------------- claims ------------------------------- *)

ValidAlgorithmNames == {"sha-1", "sha-256", "sha-384", "sha-512"}

Settled == pc \in {"resolved", "rejected"}

\* the contents of a list of readable paths, in the order of the list
ContentsOf(paths) == [k \in 1..Len(paths) |-> ReadBytes(paths[k])]

\* the hex digest of the concatenated contents of a list of paths
ReferenceDigest(algorithm, paths) ==
  HexEncode(Digest(AlgoName(algorithm), Concat(ContentsOf(paths))))

HexLenOf(algorithm) ==
  IF algorithm = "sha-1" THEN 40
  ELSE IF algorithm = "sha-256" THEN 64
  ELSE IF algorithm = "sha-384" THEN 96
  ELSE 128

IsLowerHex(c) == c \in (48..57) \cup (97..102)

PositiveIntegerBatch == req.batchCount.t = "num" /\ req.batchCount.n >= 1

\* the reads that have settled with a failure
FailedReads == {p \in Range(reads) \ inflight : ~IsFile(filePaths[p])}

\* C1: for the same request and file system, hashFiles and hashFilesSync
\* select the same files and return the identical digest string: whenever
\* hashFiles returns a digest, hashFilesSync run on that request resolves the
\* same paths and returns the same string.
C1_VariantsAgree ==
  (variant = "async" /\ pc = "resolved") =>
    LET r == HashFilesSyncRun(req)
    IN /\ r.filePaths = filePaths
       /\ r.out.st = "resolved"
       /\ r.out.hex = out.hex

\* C2: in exact-path mode the digest does not depend on the order in which
\* the caller lists the paths: the digest returned for a list is the digest
\* the same variant returns for the sorted permutation of that list.
C2_OrderIndependent ==
  (pc = "resolved" /\ req.noGlob) =>
    IF variant = "async"
    THEN out.hex = ReferenceDigest(req.algorithm, Sort(req.files))
    ELSE out = HashFilesSyncRun([req EXCEPT !.files = Sort(req.files)]).out

\* C3: with a positive integer batchCount, hashFiles issues its reads as
\* consecutive slices of the path list, each position once and in order, no
\* batch longer than batchCount, and the digest it returns is the digest of
\* the contents concatenated in path-list order, a value in which batchCount
\* does not occur.
C3_BatchSizeInvariance ==
  (variant = "async" /\ PositiveIntegerBatch) =>
    /\ reads = [k \in 1..Len(reads) |-> k]
    /\ Len(batch) <= req.batchCount.n
    /\ pc = "resolved" =>
         /\ Len(reads) = Len(filePaths)
         /\ fileDataList = ContentsOf(filePaths)
         /\ out.hex = ReferenceDigest(req.algorithm, filePaths)

\* three files hashed in three batches of one
C3_Witness ==
  /\ variant = "async"
  /\ pc = "resolved"
  /\ req.batchCount = Num(1)
  /\ Len(filePaths) = 3
  /\ filePaths[1] # filePaths[2]

\* C4: in both variants a request whose algorithm is not one of the four
\* supported names is rejected with the invalid-algorithm error, and no glob
\* expansion, no file read and no digest has been issued, whether or not the
\* requested files exist.
C4_InvalidAlgorithmBeforeIO ==
  (variant # "none" /\ req.algorithm \notin ValidAlgorithmNames) =>
    /\ pc = "rejected"
    /\ out.kind = "InvalidAlgorithm"
    /\ out.hex = <<>>
    /\ reads = <<>>
    /\ inflight = {}
    /\ globs = 0
    /\ digests = 0

\* an invalid algorithm over an exact path that exists
C4_Witness ==
  /\ variant = "async"
  /\ req.algorithm = "invalid-algo"
  /\ req.noGlob
  /\ req.files = <<1>>
  /\ fs[1] = "file"
  /\ pc = "rejected"

\* C5: in both variants, once the read of a selected path has failed the
\* call returns no digest and does not invoke the digest primitive: it is
\* rejected with the read failure of a path whose read failed, or (hashFiles
\* only) it is still awaiting the batch and that rejection is its next step;
\* no position of the path list is read twice; and a digest is returned only
\* when every selected path is a regular file whose read has completed.
C5_ReadFailureFailsCall ==
  /\ FailedReads # {} =>
       /\ out.hex = <<>>
       /\ digests = 0
       /\ \/ /\ pc = "rejected"
             /\ out.kind = "ReadFailure"
             /\ \E p \in FailedReads : out.path = filePaths[p]
          \/ /\ pc = "await"
             /\ variant = "async"
             /\ out = Pending
             /\ ENABLED BatchReject
  /\ \A j, k \in 1..Len(reads) : j # k => reads[j] # reads[k]
  /\ pc = "resolved" =>
       \A k \in 1..Len(filePaths) :
         k \in Range(reads) /\ k \notin inflight /\ IsFile(filePaths[k])

\* C6: every digest string returned by either variant is lowercase
\* hexadecimal of length 40, 64, 96, 128 for sha-1, sha-256, sha-384,
\* sha-512.
C6_DigestFormat ==
  pc = "resolved" =>
    /\ Len(out.hex) = HexLenOf(req.algorithm)
    /\ \A k \in 1..Len(out.hex) : IsLowerHex(out.hex[k])

\* C7: in both variants, when the resolved path set is empty the call
\* succeeds, reads no file, and returns the chosen algorithm's digest of the
\* empty byte sequence.
C7_EmptyInput ==
  (Settled /\ req.algorithm \in ValidAlgorithmNames /\ filePaths = <<>>) =>
    /\ pc = "resolved"
    /\ reads = <<>>
    /\ out.hex = HexEncode(Digest(AlgoName(req.algorithm), <<>>))

\* the state part of C8
C8_Inv ==
  (variant = "async" /\ PositiveIntegerBatch) =>
    /\ Cardinality(inflight) <= req.batchCount.n
    /\ inflight \subseteq Range(batch)
    /\ \A p \in Range(reads) \ Range(batch) : p \notin inflight /\ IsFile(filePaths[p])

\* the step part of C8
C8_NoReadAfterFailure ==
  (variant = "async" /\ PositiveIntegerBatch /\ FailedReads # {}) => reads' = reads

\* C8: in hashFiles with a positive integer batchCount at most batchCount
\* reads are in flight, every read in flight belongs to the batch issued
\* last, every read of an earlier batch has completed successfully, and once
\* a read has failed no further read is issued.
C8_BatchesSequential == []C8_Inv /\ [][C8_NoReadAfterFailure]_vars

\* the second batch of one is in flight after the first completed
C8_Witness ==
  /\ variant = "async"
  /\ req.batchCount = Num(1)
  /\ Len(reads) = 2
  /\ inflight = {2}
  /\ okReads = {1}

\* C9: run from the command line in async mode with -c N, every batch of
\* reads hashFiles issues holds at most N files.
C9_CliBatchBound ==
  (entry = "cli" /\ variant = "async" /\ req.batchCount.t = "str"
     /\ AllDigits(req.batchCount.s)) =>
    /\ Len(batch) <= Decimal(req.batchCount.s)
    /\ Cardinality(inflight) <= Decimal(req.batchCount.s)

\* C10: in both modes and both variants the list of paths handed to the
\* reader is sorted ascending without duplicates.
C10_SortedNoDuplicates ==
  variant # "none" =>
    \A j, k \in 1..Len(filePaths) : j < k => filePaths[j] < filePaths[k]

\* an iteration of the batch loop that read nothing and leaves the index at
\* the value it had: every later iteration does the same
LoopStalled ==
  /\ variant = "async"
  /\ pc = "await"
  /\ batch = <<>>
  /\ JsLess(i, Len(filePaths))
  /\ ~JsIsNaN(JsAdd(i, req.batchCount))
  /\ JsToInteger(JsAdd(i, req.batchCount)) = JsToInteger(i)
  /\ JsToInteger(req.batchCount) = 0

\* C11: a run of main.ts ends, and in exactly one of three ways: with --help
\* it printed the usage and exited 0 without any hashing call; without it,
\* after a successful call it printed the digest as its one line on stdout
\* and exited 0, and after a failed call (invalid algorithm, read failure,
\* glob failure) it printed one "Error: ..." line on stderr, no digest on
\* stdout, and exited 1.  Before it ends it has written nothing and is not
\* held in a loop that cannot end.
C11_CliOutcomes ==
  /\ (entry = "cli" /\ proc.st = "exited") =>
       \/ /\ proc.help
          /\ variant = "none"
          /\ pc = "idle" /\ reads = <<>> /\ globs = 0 /\ digests = 0
          /\ proc.stdout = "usage" /\ ~proc.stderr /\ proc.code = 0
       \/ /\ ~proc.help
          /\ variant # "none"
          /\ pc = "resolved"
          /\ proc.stdout = "digest" /\ proc.line = out.hex /\ ~proc.stderr /\ proc.code = 0
       \/ /\ ~proc.help
          /\ variant # "none"
          /\ pc = "rejected"
          /\ out.kind \in {"InvalidAlgorithm", "ReadFailure", "GlobFailure"}
          /\ proc.stdout = "" /\ proc.line = <<>> /\ proc.stderr /\ proc.code = 1
  /\ (entry = "cli" /\ proc.st = "running") =>
       /\ proc.stdout = "" /\ ~proc.stderr /\ proc.code = -1 /\ variant # "none"
       /\ ~proc.help
       /\ ~LoopStalled

\* batchCount is a positive integer, as a number or as a string of digits
CountsFromOne ==
  \/ PositiveIntegerBatch
  \/ /\ req.batchCount.t = "str"
     /\ AllDigits(req.batchCount.s)
     /\ Decimal(req.batchCount.s) >= 1

\* C12: in hashFiles, whatever the order in which the reads of a batch
\* complete, the buffers appended to fileDataList are those of the path list
\* in path-list order, and the digest returned is the digest of the contents
\* read, concatenated in that order: of every path of the list when
\* batchCount is a positive integer.
C12_CompletionOrderIrrelevant ==
  variant = "async" =>
    /\ Len(fileDataList) <= Len(filePaths)
    /\ fileDataList = [k \in 1..Len(fileDataList) |-> ReadBytes(filePaths[k])]
    /\ pc = "resolved" =>
         out.hex = ReferenceDigest(req.algorithm, SubSeq(filePaths, 1, Len(fileDataList)))
    /\ (pc = "resolved" /\ CountsFromOne) =>
         out.hex = ReferenceDigest(req.algorithm, filePaths)

\* a batch of two different files appended after the second read completed
\* before the first
C12_Witness ==
  /\ variant = "async"
  /\ pc = "loop"
  /\ arrived = <<2, 1>>
  /\ Len(fileDataList) = 2
  /\ filePaths[1] # filePaths[2]

\* C13: in hashFiles, at the moment the call rejects because a read of a
\* batch failed, no read started by the call is still in flight.
C13_RejectsAfterAllSettled ==
  [][(variant = "async" /\ pc = "await" /\ pc' = "rejected") => inflight' = {}]_vars

\* C14: in hashFiles with an integer batchCount, 0 and negative values
\* included, every iteration of the batch loop leaves the index strictly
\* greater than it found it (so the loop ends on a finite path list).
C14_LoopIndexAdvances ==
  [][(variant = "async" /\ req.batchCount.t = "num" /\ filePaths # <<>>
        /\ pc = "await" /\ pc' = "loop")
       => JsToInteger(i') > JsToInteger(i)]_vars

====
